---- MODULE Spec2Model ----
(***************************************************************************)
(* A model of the cron-uninterrupt-task process: the top-level script of   *)
(* index.js (and of its second variant, the script that opens              *)
(* src/unnamed/part_000), the async function callAPI with its single       *)
(* suspension point at axios.get, the two signal handlers, and the Node    *)
(* runtime around them (default signal disposition, the event loop that    *)
(* runs handlers only after the top-level script has returned, and the     *)
(* exit of a process whose event loop has nothing left to wait for).       *)
(***************************************************************************)
EXTENDS Integers, Sequences, FiniteSets, TLC

(***************************************************************************)
(* Bounds of the model                                                     *)
(***************************************************************************)

\* Granularity of the clock, in milliseconds.
TickMs == 10000

\* The clock stops advancing for a request that has been pending this long
\* (only a request without a timeout can get there).
MaxElapsedMs == 50000

(***************************************************************************)
(* Program constants                                                       *)
(***************************************************************************)

\* axios.get(API_ENDPOINT, { timeout: 30000 })
RequestTimeoutMs == 30000

\* process.exit(0) in both signal handlers
ShutdownExitCode == 0

\* The fallback of `process.env.API_ENDPOINT || '...'`
DefaultEndpoint == "https://cloud.blackbox.ai/api/cron/resume-stalled"

\* The default the README's "Environment Variables" table documents
DocumentedDefault == "https://api.example.com/endpoint"

(***************************************************************************)
(* Inputs                                                                  *)
(***************************************************************************)

\* The two variants of the script.
Variants == {"index", "part_000"}

\* process.env.API_ENDPOINT: undefined when the variable is not set.
Undefined == "<undefined>"
EnvValues == {Undefined, "", "https://my.example/hook"}

Hours == 0..23

\* Statuses and bodies a remote endpoint may answer with.
Statuses == {200, 204, 302, 404, 500}
Bodies == {"[]", "oops"}

\* Transport failures that produce no response at all.
TransportErrors == {"getaddrinfo ENOTFOUND", "connect ECONNREFUSED"}

SignalNames == {"SIGTERM", "SIGINT"}

\* Distance, at process start, to the next hour boundary of the wall clock.
BoundaryOffsets == {TickMs, 2 * TickMs, 6 * TickMs}

HourMs == 60 * 60 * 1000

Min(a, b) == IF a <= b THEN a ELSE b

VARIABLES
    variant,        \* which script runs
    env,            \* process.env.API_ENDPOINT
    API_ENDPOINT,   \* the module-level const
    pcMain,         \* position of the top-level script
    hour,           \* wall-clock hour, what new Date().getHours() returns
    untilHour,      \* ms until the wall clock reaches minute 0 of the next hour
    boundaries,     \* hour boundaries reached while the process was alive
    invocations,    \* calls of callAPI started
    inv,            \* the activation record of callAPI
    requests,       \* every request handed to axios.get, in order
    elapsed,        \* ms since the pending request was issued
    log,            \* console output, in order
    proc,           \* the process: running, exited (with a code) or killed
    handlers,       \* signals with a listener registered through process.on
    pending,        \* signals caught while the top-level script was running
    signals,        \* every signal delivered to the process, in order
    trace           \* the events of callAPI (start, request, outcome), in order

vars == <<variant, env, API_ENDPOINT, pcMain, hour, untilHour, boundaries,
          invocations, inv, requests, elapsed, log, proc, handlers, pending,
          signals, trace>>

(***************************************************************************)
(* Console lines                                                           *)
(***************************************************************************)

\* An optional value is the empty set or a singleton.
None == {}
Some(x) == {x}

\* One console line: the stream, the text, the hour of its ISO timestamp
\* (None when the line carries no timestamp) and the status / data argument.
Line(stream, text, ts, status, data) ==
    [stream |-> stream, text |-> text, ts |-> ts, status |-> status, data |-> data]

\* Lines of a sequence of console lines whose text is `text`.
LinesWith(out, text) == {i \in 1..Len(out) : out[i].text = text}

(***************************************************************************)
(* getFrequency: called by the part_000 variant, defined in neither file   *)
(* of src/. Modelled from the README's "Frequency Logic" and the           *)
(* specification's classify: the first divisor, in the order 24, 12, 6,    *)
(* 4, 3, 2, that divides the hour.                                         *)
(***************************************************************************)

getFrequencyNoPriority(h) ==
    IF h % 2 = 0 THEN "2x"
    ELSE IF h % 3 = 0 THEN "3x"
    ELSE IF h % 4 = 0 THEN "4x"
    ELSE IF h % 6 = 0 THEN "6x"
    ELSE IF h % 12 = 0 THEN "12x"
    ELSE IF h % 24 = 0 THEN "24x"
    ELSE "1x"

getFrequency(h) ==
    IF h % 24 = 0 THEN "24x"
    ELSE IF h % 12 = 0 THEN "12x"
    ELSE IF h % 6 = 0 THEN "6x"
    ELSE IF h % 4 = 0 THEN "4x"
    ELSE IF h % 3 = 0 THEN "3x"
    ELSE IF h % 2 = 0 THEN "2x"
    ELSE "1x"

(***************************************************************************)
(* Module load                                                             *)
(***************************************************************************)

\* JavaScript truthiness of process.env.API_ENDPOINT: undefined and the
\* empty string are falsy.
Truthy(e) == e # Undefined /\ e # ""

\* const API_ENDPOINT = process.env.API_ENDPOINT || '<default>'
ResolveEndpoint(e) == IF Truthy(e) THEN e ELSE DefaultEndpoint

\* The const before its declaration has run.
Uninitialized == "<uninitialized>"

(***************************************************************************)
(* callAPI, up to its await                                                *)
(***************************************************************************)

NoTimeoutConfig == [timeout |-> 0]

\* The config object passed to axios.get.
RequestConfig == [timeout |-> RequestTimeoutMs]

\* axios.get(API_ENDPOINT, { timeout: 30000 }): a GET of the url, with no
\* params in the config, hence no query string.
RequestOf(url) ==
    [method |-> "GET", url |-> url, params |-> None, timeout |-> RequestConfig.timeout]

\* The activation record of callAPI before it is called.
IdleInvocation ==
    [pc |-> "idle", now |-> None, currentHour |-> None, frequency |-> None,
     settled |-> "none", status |-> None, data |-> None, outcome |-> "none",
     rejected |-> FALSE, settledAt |-> None, procAfter |-> ""]

\* The locals the try block sets before the request: now, and in the
\* part_000 variant currentHour and frequency.
EnterTry(v, h) ==
    [IdleInvocation EXCEPT
        !.pc = "await",
        !.now = Some(h),
        !.currentHour = IF v = "part_000" THEN Some(h) ELSE None,
        !.frequency = IF v = "part_000" THEN Some(getFrequency(h)) ELSE None]

\* The line logged before the request.
StartLine(v, h) ==
    IF v = "part_000"
    THEN Line("out", "Current hour: " \o ToString(h) \o ", Frequency: " \o getFrequency(h),
              Some(h), None, "")
    ELSE Line("out", "Executing cron", Some(h), None, "")

\* The event a console line of callAPI stands for.
EventOfLine(l) ==
    IF l.text = "API call successful:" THEN "success"
    ELSE IF l.text = "API call failed:" THEN "failure"
    ELSE IF l.text \in {"Response status:", "Response data:"} THEN "detail"
    ELSE "start"

\* The outcome events (success, failure) among the lines of a branch.
OutcomeEvents(lines) ==
    SelectSeq([i \in 1..Len(lines) |-> EventOfLine(lines[i])],
              LAMBDA e : e \in {"success", "failure"})

CallPrefixRequestFirst(v, h, url) ==
    << [kind |-> "request", line |-> StartLine(v, h), request |-> RequestOf(url)],
       [kind |-> "log", line |-> StartLine(v, h), request |-> RequestOf(url)] >>

\* What callAPI does, in program order, from its call to its await: the
\* first console.log, then axios.get.
CallPrefix(v, h, url) ==
    << [kind |-> "log", line |-> StartLine(v, h), request |-> RequestOf(url)],
       [kind |-> "request", line |-> StartLine(v, h), request |-> RequestOf(url)] >>

\* The console lines, the requests and the events of a sequence of effects.
LinesOf(effects) ==
    LET logs == SelectSeq(effects, LAMBDA e : e.kind = "log")
    IN  [i \in 1..Len(logs) |-> logs[i].line]

RequestsOf(effects) ==
    LET reqs == SelectSeq(effects, LAMBDA e : e.kind = "request")
    IN  [i \in 1..Len(reqs) |-> reqs[i].request]

EventsOf(effects) ==
    [i \in 1..Len(effects) |->
        IF effects[i].kind = "log" THEN EventOfLine(effects[i].line) ELSE "request"]

(***************************************************************************)
(* axios                                                                   *)
(***************************************************************************)

\* axios' default validateStatus: a response settles the promise as
\* fulfilled only for a 2xx status.
validateStatus(status) == status >= 200 /\ status < 300

\* What the promise of axios.get settles with, from what the network did:
\* a response (any status), a transport error, or the request's timer.
AxiosSettle(net) ==
    CASE net.kind = "response" ->
            IF validateStatus(net.status)
            THEN [fulfilled |-> TRUE, message |-> "",
                  response |-> Some([status |-> net.status, data |-> net.data])]
            ELSE [fulfilled |-> FALSE,
                  message |-> "Request failed with status code " \o ToString(net.status),
                  response |-> Some([status |-> net.status, data |-> net.data])]
      [] net.kind = "error" ->
            [fulfilled |-> FALSE, message |-> net.message, response |-> None]
      [] net.kind = "timeout" ->
            [fulfilled |-> FALSE,
             message |-> "timeout of " \o ToString(net.timeout) \o "ms exceeded",
             response |-> None]

(***************************************************************************)
(* callAPI, after its await                                                *)
(***************************************************************************)

\* The rest of the try block, run when the promise is fulfilled. index.js
\* logs the body on the success line; part_000 logs the status on it and
\* the body on a line of its own. The timestamp is `now`, taken on entry.
TryBranch(v, now, response) ==
    IF v = "part_000"
    THEN << Line("out", "API call successful:", now, Some(response.status), ""),
            Line("out", "Response data:", None, None, response.data) >>
    ELSE << Line("out", "API call successful:", now, None, response.data) >>

\* Variants of the catch block with a plausible slip each.
CatchBranchNoResponseLines(h, error) ==
    [lines |-> << Line("err", "API call failed:", Some(h), None, error.message) >>,
     retry |-> FALSE, rethrow |-> FALSE]

CatchBranchUnguarded(h, error) ==
    [lines |-> << Line("err", "API call failed:", Some(h), None, error.message),
                  Line("err", "Response status:", None,
                       {r.status : r \in error.response}, ""),
                  Line("err", "Response data:", None, None, "") >>,
     retry |-> FALSE, rethrow |-> FALSE]

CatchBranchRetry(h, error) ==
    [lines |-> << Line("err", "API call failed:", Some(h), None, error.message) >>,
     retry |-> TRUE, rethrow |-> FALSE]

CatchBranchRethrow(h, error) ==
    [lines |-> << Line("err", "API call failed:", Some(h), None, error.message) >>,
     retry |-> FALSE, rethrow |-> TRUE]

\* The catch block, run when the promise is rejected: the failure line with
\* a fresh timestamp and error.message, then, only if the error carries a
\* response, its status and its data. It issues no request and throws
\* nothing.
CatchBranch(h, error) ==
    [lines |-> << Line("err", "API call failed:", Some(h), None, error.message) >>
               \o (IF error.response # None
                   THEN LET r == CHOOSE x \in error.response : TRUE
                        IN  << Line("err", "Response status:", None, Some(r.status), ""),
                               Line("err", "Response data:", None, None, r.data) >>
                   ELSE << >>),
     retry |-> FALSE, rethrow |-> FALSE]

(***************************************************************************)
(* The signal handlers                                                     *)
(***************************************************************************)

SignalHandlerExitsNonZero(sig) ==
    [line |-> Line("out", sig \o " received, shutting down gracefully", None, None, ""),
     exits |-> TRUE, code |-> 1]

SignalHandlerNoExit(sig) ==
    [line |-> Line("out", sig \o " received, shutting down gracefully", None, None, ""),
     exits |-> FALSE, code |-> ShutdownExitCode]

\* process.on(sig, () => { console.log(...); process.exit(0); })
SignalHandler(sig) ==
    [line |-> Line("out", sig \o " received, shutting down gracefully", None, None, ""),
     exits |-> TRUE, code |-> ShutdownExitCode]

\* Tasks registered with cron.schedule: the module is required and never
\* used, so an hour boundary finds nothing to run.
ScheduledTasks == {}

(***************************************************************************)
(* The process                                                             *)
(***************************************************************************)

\* Signals the model delivers to one process.
MaxSignals == 2

Running == [state |-> "running", code |-> None, cause |-> ""]

Alive == proc.state = "running"

\* The request the invocation is waiting for.
Pending == requests[Len(requests)]

Init ==
    /\ variant \in Variants
    /\ env \in EnvValues
    /\ API_ENDPOINT = Uninitialized
    /\ pcMain = "load"
    /\ hour \in Hours
    /\ untilHour \in BoundaryOffsets
    /\ boundaries = 0
    /\ invocations = 0
    /\ inv = IdleInvocation
    /\ requests = << >>
    /\ elapsed = 0
    /\ log = << >>
    /\ proc = Running
    /\ handlers = {}
    /\ pending = {}
    /\ signals = << >>
    /\ trace = << >>

\* The requires and the const declaration.
LoadModule ==
    /\ Alive
    /\ pcMain = "load"
    /\ pcMain' = "loaded"
    /\ API_ENDPOINT' = ResolveEndpoint(env)
    /\ UNCHANGED <<variant, env, hour, untilHour, boundaries, invocations, inv,
                   requests, elapsed, log, proc, handlers, pending, signals, trace>>

\* The three banner lines and callAPI(), which runs to its await: it takes
\* `now`, logs its first line and hands one request to axios.get. The
\* promise it returns is dropped.
StartupCall ==
    /\ Alive
    /\ pcMain = "loaded"
    /\ pcMain' = "called"
    /\ log' = log \o << Line("out", "Cron job scheduler started", None, None, ""),
                        Line("out", "Job will run at the start of every hour (0 * * * *)",
                             None, None, ""),
                        Line("out", "Running initial API call...", None, None, "") >>
                 \o LinesOf(CallPrefix(variant, hour, API_ENDPOINT))
    /\ inv' = EnterTry(variant, hour)
    /\ requests' = requests \o RequestsOf(CallPrefix(variant, hour, API_ENDPOINT))
    /\ trace' = trace \o EventsOf(CallPrefix(variant, hour, API_ENDPOINT))
    /\ invocations' = invocations + 1
    /\ elapsed' = 0
    /\ UNCHANGED <<variant, env, API_ENDPOINT, hour, untilHour, boundaries, proc,
                   handlers, pending, signals>>

\* process.on('SIGTERM', ...)
RegisterSIGTERM ==
    /\ Alive
    /\ pcMain = "called"
    /\ pcMain' = "sigterm"
    /\ handlers' = handlers \cup {"SIGTERM"}
    /\ UNCHANGED <<variant, env, API_ENDPOINT, hour, untilHour, boundaries,
                   invocations, inv, requests, elapsed, log, proc, pending, signals, trace>>

\* process.on('SIGINT', ...), the script's last statement.
RegisterSIGINT ==
    /\ Alive
    /\ pcMain = "sigterm"
    /\ pcMain' = "end"
    /\ handlers' = handlers \cup {"SIGINT"}
    /\ UNCHANGED <<variant, env, API_ENDPOINT, hour, untilHour, boundaries,
                   invocations, inv, requests, elapsed, log, proc, pending, signals, trace>>

\* The listener of `sig` runs: one line, then process.exit.
RunHandler(sig) ==
    LET h == SignalHandler(sig)
    IN  /\ log' = Append(log, h.line)
        /\ proc' = IF h.exits
                   THEN [state |-> "exited", code |-> Some(h.code),
                         cause |-> "process.exit"]
                   ELSE proc
        /\ pending' = pending \ {sig}

\* A signal reaches the process. Without a listener the default disposition
\* ends the process at once; with one, the listener runs from the event
\* loop, that is not before the top-level script has returned.
Signal(sig) ==
    /\ Alive
    /\ Len(signals) < MaxSignals
    /\ signals' = Append(signals, [sig |-> sig, listened |-> sig \in handlers,
                                   at |-> pcMain])
    /\ IF sig \notin handlers
       THEN /\ proc' = [state |-> "killed", code |-> None, cause |-> sig]
            /\ UNCHANGED <<log, pending>>
       ELSE IF pcMain = "end"
            THEN RunHandler(sig)
            ELSE /\ pending' = pending \cup {sig}
                 /\ UNCHANGED <<log, proc>>
    /\ UNCHANGED <<variant, env, API_ENDPOINT, pcMain, hour, untilHour, boundaries,
                   invocations, inv, requests, elapsed, handlers, trace>>

\* The event loop runs the listener of a signal caught during the script.
DispatchPending ==
    /\ Alive
    /\ pcMain = "end"
    /\ \E sig \in pending : RunHandler(sig)
    /\ UNCHANGED <<variant, env, API_ENDPOINT, pcMain, hour, untilHour, boundaries,
                   invocations, inv, requests, elapsed, handlers, signals, trace>>

\* The promise of axios.get settles and callAPI resumes in the same turn of
\* the event loop: the rest of the try block, or the catch block.
Settle(net) ==
    LET res == AxiosSettle(net)
        got == IF res.response # None THEN "response" ELSE "noresponse"
        st  == {r.status : r \in res.response}
        dt  == {r.data : r \in res.response}
    IN  IF res.fulfilled
        THEN /\ log' = log \o TryBranch(variant, inv.now,
                                        CHOOSE r \in res.response : TRUE)
             /\ inv' = [inv EXCEPT !.pc = "done", !.settled = got, !.status = st,
                                   !.data = dt, !.outcome = "success",
                                   !.settledAt = Some(elapsed),
                                   !.procAfter = proc.state]
             /\ trace' = trace \o OutcomeEvents(TryBranch(variant, inv.now,
                                                  CHOOSE r \in res.response : TRUE))
             /\ UNCHANGED <<requests, proc>>
        ELSE LET c == CatchBranch(hour, res)
                 \* A rejection of the dropped promise is unhandled: Node
                 \* ends the process with code 1.
                 after == IF c.rethrow
                          THEN [state |-> "exited", code |-> Some(1),
                                cause |-> "unhandledRejection"]
                          ELSE proc
             IN  /\ log' = log \o c.lines
                 /\ inv' = [inv EXCEPT !.pc = IF c.retry THEN "await" ELSE "done",
                                       !.settled = got, !.status = st, !.data = dt,
                                       !.outcome = "failed",
                                       !.rejected = c.rethrow,
                                       !.settledAt = Some(elapsed),
                                       !.procAfter = after.state]
                 /\ requests' = IF c.retry
                                THEN Append(requests, RequestOf(API_ENDPOINT))
                                ELSE requests
                 /\ trace' = trace \o OutcomeEvents(c.lines)
                                   \o (IF c.retry THEN << "request" >> ELSE << >>)
                 /\ proc' = after

Waiting == Alive /\ pcMain = "end" /\ inv.pc = "await"

\* The endpoint answers, with any status.
Respond ==
    /\ Waiting
    /\ \E status \in Statuses, body \in Bodies :
          Settle([kind |-> "response", status |-> status, data |-> body])
    /\ UNCHANGED <<variant, env, API_ENDPOINT, pcMain, hour, untilHour, boundaries,
                   invocations, elapsed, handlers, pending, signals>>

\* The request fails below HTTP: no response exists.
TransportFailure ==
    /\ Waiting
    /\ \E e \in TransportErrors : Settle([kind |-> "error", message |-> e])
    /\ UNCHANGED <<variant, env, API_ENDPOINT, pcMain, hour, untilHour, boundaries,
                   invocations, elapsed, handlers, pending, signals>>

\* The request's timer, set from its `timeout`, goes off.
TimeoutFires ==
    /\ Waiting
    /\ Pending.timeout > 0
    /\ elapsed >= Pending.timeout
    /\ Settle([kind |-> "timeout", timeout |-> Pending.timeout])
    /\ UNCHANGED <<variant, env, API_ENDPOINT, pcMain, hour, untilHour, boundaries,
                   invocations, elapsed, handlers, pending, signals>>

\* Time passes while the request is pending, never beyond the moment the
\* request's timer is due. When the wall clock reaches minute 0 the hour
\* changes and every scheduled task is started.
Tick ==
    /\ Waiting
    /\ elapsed < MaxElapsedMs
    /\ LET delta == IF Pending.timeout > 0
                    THEN Min(TickMs, Pending.timeout - elapsed)
                    ELSE TickMs
       IN  /\ delta > 0
           /\ elapsed' = elapsed + delta
           /\ IF untilHour <= delta
              THEN /\ hour' = (hour + 1) % 24
                   /\ untilHour' = untilHour - delta + HourMs
                   /\ boundaries' = boundaries + 1
                   /\ invocations' = invocations + Cardinality(ScheduledTasks)
              ELSE /\ untilHour' = untilHour - delta
                   /\ UNCHANGED <<hour, boundaries, invocations>>
    /\ UNCHANGED <<variant, env, API_ENDPOINT, pcMain, inv, requests, log, proc,
                   handlers, pending, signals, trace>>

\* Nothing keeps the event loop alive once callAPI has finished (signal
\* listeners do not, and no timer or cron task exists): the process ends
\* with code 0.
EventLoopEmpty ==
    /\ Alive
    /\ pcMain = "end"
    /\ inv.pc = "done"
    /\ pending = {}
    /\ proc' = [state |-> "exited", code |-> Some(0), cause |-> "event loop empty"]
    /\ UNCHANGED <<variant, env, API_ENDPOINT, pcMain, hour, untilHour, boundaries,
                   invocations, inv, requests, elapsed, log, handlers, pending,
                   signals, trace>>

Next ==
    \/ LoadModule
    \/ StartupCall
    \/ RegisterSIGTERM
    \/ RegisterSIGINT
    \/ \E sig \in SignalNames : Signal(sig)
    \/ DispatchPending
    \/ Respond
    \/ TransportFailure
    \/ TimeoutFires
    \/ Tick
    \/ EventLoopEmpty

Spec == Init /\ [][Next]_vars

\* What the runtime guarantees: the top-level script runs to its end, the
\* event loop runs what is due (a caught signal's listener, the request's
\* timer as time passes, the exit once nothing is left). Nothing obliges
\* the network to answer or a signal to arrive.
FairSpec ==
    /\ Spec
    /\ WF_vars(LoadModule)
    /\ WF_vars(StartupCall)
    /\ WF_vars(RegisterSIGTERM)
    /\ WF_vars(RegisterSIGINT)
    /\ WF_vars(DispatchPending)
    /\ WF_vars(Tick)
    /\ WF_vars(TimeoutFires)
    /\ WF_vars(EventLoopEmpty)

(***************************************************************************)
(* Properties                                                              *)
(***************************************************************************)

SuccessLines == LinesWith(log, "API call successful:")
FailureLines == LinesWith(log, "API call failed:")
ErrStatusLines == {i \in LinesWith(log, "Response status:") : log[i].stream = "err"}
ErrDataLines == {i \in LinesWith(log, "Response data:") : log[i].stream = "err"}

\* The success report of one answer: the success line, timestamped, that
\* carries the status and/or the body (part_000 prints the body on the
\* line that follows).
SuccessReported(s, d) ==
    /\ Cardinality(SuccessLines) = 1
    /\ \A i \in SuccessLines :
          /\ log[i].ts # None
          /\ IF variant = "part_000"
             THEN /\ log[i].status = {s}
                  /\ i < Len(log)
                  /\ log[i + 1].text = "Response data:"
                  /\ log[i + 1].data = d
             ELSE log[i].data = d

\* C1 as stated: whatever the status of a received response (2xx, 4xx or
\* 5xx), callAPI prints the success line and never the failure line.
C1_AnyResponseIsSuccess ==
    inv.settled = "response" => (SuccessLines # {} /\ FailureLines = {})

\* C1, amended: a received response with a 2xx status is reported as a
\* success (success line with status/body, no failure line); a received
\* response with any other status is reported as a failure: the failure
\* line, then the response's status and data, and no success line.
C1_ResponseReport ==
    inv.settled = "response" =>
        \A s \in inv.status, d \in inv.data :
            IF s \in 200..299
            THEN SuccessReported(s, d) /\ FailureLines = {}
            ELSE /\ SuccessLines = {}
                 /\ Cardinality(FailureLines) = 1
                 /\ \E i \in ErrStatusLines : log[i].status = {s}
                 /\ \E i \in ErrDataLines : log[i].data = d

\* A 500 answer has been received and reported.
C1_Witness ==
    /\ inv.settled = "response"
    /\ inv.status = {500}
    /\ FailureLines # {}

\* C2: every call of callAPI hands exactly one GET request to axios, on
\* the success path and on every failure path, in both variants: none
\* before the call, one from the call on, never a second.
C2_ExactlyOneRequest ==
    /\ Len(requests) = invocations
    /\ inv.pc = "idle" => requests = << >>
    /\ inv.pc \in {"await", "done"} => Len(requests) = 1
    /\ \A i \in 1..Len(requests) : requests[i].method = "GET"

\* A call has ended in the catch block, with its one request.
C2_Witness ==
    /\ inv.pc = "done"
    /\ inv.outcome = "failed"
    /\ Len(requests) = 1

\* The mapping C3 lists, hour by hour.
ListedLabel(h) ==
    CASE h = 0 -> "24x"
      [] h = 12 -> "12x"
      [] h \in {6, 18} -> "6x"
      [] h \in {4, 8, 16, 20} -> "4x"
      [] h \in {3, 9, 15, 21} -> "3x"
      [] h \in {2, 10, 14, 22} -> "2x"
      [] h \in {1, 5, 7, 11, 13, 17, 19, 23} -> "1x"

\* C3: the frequency computed for the current hour h in 0..23 is the label
\* of the first divisor of h in the order 24, 12, 6, 4, 3, 2, that is the
\* listed one: 0 -> 24x, 12 -> 12x, {6,18} -> 6x, {4,8,16,20} -> 4x,
\* {3,9,15,21} -> 3x, {2,10,14,22} -> 2x, every other hour -> 1x.
C3_FrequencyClassification ==
    \A h \in inv.currentHour :
        /\ h \in Hours
        /\ inv.frequency = {ListedLabel(h)}

\* The frequency of hour 20 (divisible by 4 and by 2) has been computed.
C3_Witness ==
    /\ inv.currentHour = {20}
    /\ inv.frequency = {"4x"}

\* C4: callAPI is called once on startup and once more at every hour
\* boundary the live process reaches.
C4_HourlyInvocation ==
    pcMain \in {"called", "sigterm", "end"} => invocations = 1 + boundaries

\* C5: every request is a GET of the configured endpoint that carries
\* frequency=<label>, the label of the hour at the time of the call.
C5_RequestCarriesFrequency ==
    \A i \in 1..Len(requests) :
        /\ requests[i].method = "GET"
        /\ requests[i].url = API_ENDPOINT
        /\ \A h \in inv.now :
              requests[i].params = Some([frequency |-> getFrequency(h)])

\* C6: when no response is received (DNS failure, connection refused,
\* timeout) callAPI prints the failure line, timestamped, with the
\* transport error's message, prints neither a response status nor a
\* response body, and prints no success line.
C6_NoResponseIsFailure ==
    inv.settled = "noresponse" =>
        /\ Cardinality(FailureLines) = 1
        /\ \A i \in FailureLines :
              /\ log[i].ts # None
              /\ log[i].data \in TransportErrors \cup {"timeout of 30000ms exceeded"}
        /\ LinesWith(log, "Response status:") = {}
        /\ LinesWith(log, "Response data:") = {}
        /\ SuccessLines = {}

\* A refused connection has been reported.
C6_Witness ==
    /\ inv.settled = "noresponse"
    /\ \E i \in FailureLines : log[i].data = "connect ECONNREFUSED"

\* C7: an invocation that fails (no response, or a response axios rejects)
\* does not end the process, does not reject the promise of callAPI and
\* issues no second request: when callAPI returns the process is running,
\* and exactly one timestamped failure line has been printed. Whenever the
\* process ends afterwards it ends with code 0, on a signal's handler or
\* because the event loop has nothing left.
C7_ErrorsAreContained ==
    inv.outcome = "failed" =>
        /\ inv.procAfter = "running"
        /\ ~inv.rejected
        /\ Len(requests) = 1
        /\ Cardinality(FailureLines) = 1
        /\ \A i \in FailureLines : log[i].ts # None
        /\ \/ Alive
           \/ /\ proc.state = "exited"
              /\ proc.code = {0}
              /\ proc.cause \in {"process.exit", "event loop empty"}

\* An invocation has failed on a 404 and the process is still running.
C7_Witness ==
    /\ inv.outcome = "failed"
    /\ inv.status = {404}
    /\ inv.pc = "done"
    /\ Alive

\* The endpoint C8 describes: the variable's value when it is set, the
\* documented default otherwise.
ClaimedEndpoint == IF env # Undefined THEN env ELSE DocumentedDefault

\* C8: once loaded, API_ENDPOINT is the value of the environment variable
\* when it is set and the documented default otherwise, it never changes,
\* and every request targets it.
C8_EndpointResolution ==
    pcMain # "load" =>
        /\ API_ENDPOINT = ClaimedEndpoint
        /\ \A i \in 1..Len(requests) : requests[i].url = ClaimedEndpoint

ShutdownLines(sig) == LinesWith(log, sig \o " received, shutting down gracefully")

\* C9 as stated: in whatever state SIGTERM or SIGINT is received, the
\* process prints the shutdown message and exits with code 0: it is never
\* killed, and a received signal is never left without effect.
C9_AnySignalExitsZero ==
    /\ proc.state # "killed"
    /\ (signals # << >> /\ proc.state # "running") =>
          /\ proc.code = {0}
          /\ \E sig \in SignalNames : ShutdownLines(sig) # {}

\* C9, amended: a SIGTERM or SIGINT received once the top-level script has
\* registered both handlers, while the request is pending or after its
\* outcome was reported, makes the process print that signal's shutdown
\* message as its last line and exit with code 0. A signal received before
\* its handler is registered kills the process by the default disposition:
\* no shutdown message, no exit code.
C9_HandledSignalExitsZero ==
    \A i \in 1..Len(signals) :
        /\ signals[i].at = "end" =>
              /\ signals[i].listened
              /\ proc.state = "exited"
              /\ proc.code = {0}
              /\ log # << >>
              /\ log[Len(log)].text
                    = signals[i].sig \o " received, shutting down gracefully"
        /\ ~signals[i].listened =>
              /\ proc.state = "killed"
              /\ proc.code = None
              /\ \A sig \in SignalNames : ShutdownLines(sig) = {}

\* SIGINT has been received while the request was pending.
C9_Witness ==
    /\ \E i \in 1..Len(signals) : signals[i].sig = "SIGINT" /\ signals[i].at = "end"
    /\ inv.pc = "await"
    /\ proc.state = "exited"

\* C10: callAPI never waits for the network beyond 30000 ms from the
\* moment it issued the request: while it waits at most 30000 ms have
\* passed, a missing response is reported as a failure after at most
\* 30000 ms, and the timeout itself is reported at 30000 ms.
C10_TimeoutBound ==
    /\ inv.pc = "await" => elapsed <= 30000
    /\ inv.settled = "noresponse" =>
          /\ inv.outcome = "failed"
          /\ \A t \in inv.settledAt : t <= 30000
    /\ (\E i \in FailureLines : log[i].data = "timeout of 30000ms exceeded")
          => inv.settledAt = {30000}

\* The request timed out and the timeout was reported.
C10_Witness ==
    /\ inv.settledAt = {30000}
    /\ inv.settled = "noresponse"
    /\ \E i \in FailureLines : log[i].data = "timeout of 30000ms exceeded"

\* The outcome lines printed so far.
OutcomeReports == Cardinality(SuccessLines) + Cardinality(FailureLines)

\* The events of one invocation so far are a prefix of start, request,
\* outcome: nothing before the call, start and request while it waits,
\* the one outcome once it is done.
InvocationOrder ==
    /\ OutcomeReports <= 1
    /\ inv.pc = "idle" => trace = << >>
    /\ inv.pc = "await" => trace = << "start", "request" >> /\ OutcomeReports = 0
    /\ inv.pc = "done" =>
          /\ OutcomeReports = 1
          /\ \/ trace = << "start", "request", "success" >> /\ inv.outcome = "success"
             \/ trace = << "start", "request", "failure" >> /\ inv.outcome = "failed"

\* C11: unless a shutdown signal arrives, every started invocation of
\* callAPI eventually prints exactly one outcome report, the success line
\* or the failure line and never both, and its events occur in the order
\* start line, request issued, outcome report.
C11_OneOutcomeInOrder ==
    /\ []InvocationOrder
    /\ (inv.pc = "await") ~> ((inv.pc = "done" /\ OutcomeReports = 1) \/ signals # << >>)

\* An invocation has run to its success report with no signal delivered.
C11_Witness ==
    /\ signals = << >>
    /\ inv.pc = "done"
    /\ trace = << "start", "request", "success" >>
    /\ Cardinality(SuccessLines) = 1
    /\ FailureLines = {}

\* The process ended in a signal's listener while the request was pending.
ShutdownInFlight == proc.cause = "process.exit" /\ inv.pc = "await"

\* C12: a SIGTERM or SIGINT handled while the request is in flight ends
\* the process in the handler itself, before the invocation's outcome is
\* reported: the shutdown message is the last line, no outcome line
\* exists, and the request is neither awaited nor cancelled (callAPI stays
\* at its await with its one request). Once the process has ended no
\* request is issued and no line is printed.
C12_ShutdownAbandonsRequest ==
    /\ [](\A i \in 1..Len(signals) :
            (signals[i].at = "end" /\ inv.pc = "await") =>
                /\ proc.state = "exited"
                /\ proc.cause = "process.exit"
                /\ log[Len(log)].text
                      = signals[i].sig \o " received, shutting down gracefully")
    /\ [](ShutdownInFlight =>
            /\ OutcomeReports = 0
            /\ inv.outcome = "none"
            /\ Len(requests) = 1
            /\ trace = << "start", "request" >>
            /\ \E sig \in SignalNames : Len(log) \in ShutdownLines(sig))
    /\ [][proc.state # "running" =>
            (log' = log /\ requests' = requests /\ inv' = inv /\ proc' = proc)]_vars

\* SIGTERM has been handled 10 s or more into the wait for the response.
C12_Witness ==
    /\ ShutdownInFlight
    /\ elapsed > 0
    /\ \E i \in 1..Len(signals) : signals[i].sig = "SIGTERM" /\ signals[i].at = "end"
    /\ OutcomeReports = 0

====
